---- MODULE Spec2Model ----
(***************************************************************************)
(* Model of src/controllers/attributes.controller.js: the express request  *)
(* handlers of AttributeController and ProductController over the record   *)
(* store (Product, Category, Department, Attribute, AttributeValue,        *)
(* Review).  Every handler whose body holds a single await is one action   *)
(* (the query is evaluated at one instant and the continuation touches no  *)
(* shared state); postProductReviews, with two awaits, is two actions.     *)
(* A store call may reject: the handler's catch then calls next(error).    *)
(***************************************************************************)
EXTENDS Integers, Sequences, FiniteSets, TLC

\* ------------------------------------------------------------------ bounds
\* Entity ids of every table range over 1..MaxId; requests also name MaxId+1,
\* an id no table holds.
MaxId == 2
\* Reviews the store accepts before the model stops issuing review posts.
MaxReviews == 2
\* postProductReviews requests that may be between their two awaits at once.
MaxInFlight == 1

Ids == 1..MaxId
RequestIds == 1..(MaxId + 1)
Slots == 1..MaxInFlight

\* An absent value (JavaScript undefined / null) is the empty tuple; a present
\* value v is <<v>>.
None == <<>>
Some(v) == <<v>>

\* ----------------------------------------------------------------- strings
\* Text is a sequence of one-character strings.
Upper == <<"A","B","C","D","E","F","G","H","I","J","K","L","M",
           "N","O","P","Q","R","S","T","U","V","W","X","Y","Z">>
Lower == <<"a","b","c","d","e","f","g","h","i","j","k","l","m",
           "n","o","p","q","r","s","t","u","v","w","x","y","z">>

LowerChar(c) ==
    IF \E i \in 1..Len(Upper) : Upper[i] = c
    THEN Lower[CHOOSE i \in 1..Len(Upper) : Upper[i] = c]
    ELSE c

\* String.prototype.toLowerCase
toLowerCase(s) == [i \in 1..Len(s) |-> LowerChar(s[i])]

\* String.prototype.indexOf: the least 0-based position at which q occurs in
\* s, or -1.
indexOf(s, q) ==
    LET hits == { i \in 0..(Len(s) - Len(q)) :
                    \A k \in 1..Len(q) : s[i + k] = q[k] }
    IN  IF hits = {} THEN -1
        ELSE CHOOSE i \in hits : \A j \in hits : i <= j

Digit == <<"0","1","2","3","4","5","6","7","8","9">>

RECURSIVE NumberToText(_)
NumberToText(n) ==
    IF n < 10 THEN <<Digit[n + 1]>>
    ELSE NumberToText(n \div 10) \o <<Digit[(n % 10) + 1]>>

\* JSON.stringify of a product row: its fields in column order, keys and
\* string values quoted.
KeyProductId == <<"\"","p","r","o","d","u","c","t","_","i","d","\"">>
KeyName == <<"\"","n","a","m","e","\"">>
KeyDescription == <<"\"","d","e","s","c","r","i","p","t","i","o","n","\"">>

stringify(row) ==
    <<"{">> \o KeyProductId \o <<":">> \o NumberToText(row.product_id)
    \o <<",">> \o KeyName \o <<":","\"">> \o row.name \o <<"\"">>
    \o <<",">> \o KeyDescription \o <<":","\"">> \o row.description
    \o <<"\"","}">>

\* ------------------------------------------------------------------- store
VARIABLES
    products,         \* product_id -> [product_id, name, description]
    categories,       \* category_id -> [category_id, department_id]
    departments,      \* department_id -> [department_id]
    attributes,       \* attribute_id -> [attribute_id]
    attributeValues,  \* attribute_value_id -> [attribute_value_id, attribute_id]
    productCategory,  \* set of <<product_id, category_id>>
    productAttribute, \* set of <<product_id, attribute_value_id>>
    reviews,          \* sequence of review rows, in insertion order
    pending,          \* slot -> None, or Some(postProductReviews after findByPk)
    last              \* the request handled most recently, with its outcome

store == <<products, categories, departments, attributes, attributeValues,
           productCategory, productAttribute>>
vars == <<products, categories, departments, attributes, attributeValues,
          productCategory, productAttribute, reviews, pending, last>>

\* ---------------------------------------------------------- store queries
RECURSIVE Ascending(_)
\* The keys of a result set in primary-key order.
Ascending(keys) ==
    IF keys = {} THEN <<>>
    ELSE LET k == CHOOSE x \in keys : \A y \in keys : x <= y
         IN  <<k>> \o Ascending(keys \ {k})

Min(a, b) == IF a <= b THEN a ELSE b

\* LIMIT / OFFSET of a query: an absent limit returns every row from the
\* offset on, an absent offset starts at the first row.
Window(rows, limit, offset) ==
    LET off == IF offset = None THEN 0 ELSE offset[1]
        lim == IF limit = None THEN Len(rows) ELSE limit[1]
    IN  SubSeq(rows, off + 1, Min(Len(rows), off + lim))

\* Model.findAndCountAll: count is the size of the whole result set, rows its
\* limit/offset window.
findAndCountAll(table, keys, limit, offset) ==
    LET order == Ascending(keys)
    IN  [count |-> Cardinality(keys),
         rows  |-> Window([i \in 1..Len(order) |-> table[order[i]]], limit, offset)]

\* Model.findAll: every row of the table.
findAll(table) ==
    LET order == Ascending(DOMAIN table)
    IN  [i \in 1..Len(order) |-> table[order[i]]]

\* Model.findByPk: the row with that primary key, or null.
findByPk(table, id) ==
    IF id \in DOMAIN table THEN Some(table[id]) ELSE None

\* AttributeValue joined to its Attribute, where attribute_id matches.
ValuesOfAttribute(attribute_id) ==
    { v \in DOMAIN attributeValues :
        \E a \in DOMAIN attributes :
            attributeValues[v].attribute_id = a /\ a = attribute_id }

\* AttributeValue joined to Product through product_attribute, where
\* product_id matches.
ValuesOfProduct(product_id) ==
    { v \in DOMAIN attributeValues :
        \E p \in DOMAIN products :
            <<p, v>> \in productAttribute /\ p = product_id }

\* Product joined to Category through product_category, where category_id
\* matches.
ProductsOfCategory(category_id) ==
    { p \in DOMAIN products :
        \E c \in DOMAIN categories :
            <<p, c>> \in productCategory /\ c = category_id }

\* Product joined to Category through product_category, where the category's
\* department_id matches.
ProductsOfDepartment(department_id) ==
    { p \in DOMAIN products :
        \E c \in DOMAIN categories :
            <<p, c>> \in productCategory
            /\ categories[c].department_id = department_id }

\* Category joined to its Department, where department_id matches.
CategoriesOfDepartment(department_id) ==
    { c \in DOMAIN categories :
        \E d \in DOMAIN departments :
            categories[c].department_id = d /\ d = department_id }

\* Category joined to Product through product_category, where product_id
\* matches.
CategoriesOfProduct(product_id) ==
    { c \in DOMAIN categories :
        \E p \in DOMAIN products :
            <<p, c>> \in productCategory /\ p = product_id }

\* --------------------------------------------------------------- responses
\* The rejection of a store call, as handed to next().
StoreError == "SequelizeError"

\* res.status(status).json(body)
Response(status, body) == [status |-> status, body |-> body]

\* A message is the sequence of its parts: a template looked up in the error
\* catalog, literal text, or a request value interpolated into it.
Template(group, key) == <<"template", group, key>>
Text(t) == <<"text", t>>
Param(v) == <<"param", v>>

\* The 404 body { error: { status, code, message, field } }.
NotFound(code, message, field) ==
    Response(404, [error |-> [status |-> 404, code |-> code,
                              message |-> message, field |-> field]])

\* The handled request and what it produced: the res.json calls and the
\* next(error) calls, in order.
Handled(handler, params, responses, nexts) ==
    [handler |-> handler, params |-> params,
     responses |-> responses, nexts |-> nexts]

\* ----------------------------------------------------- AttributeController
getAllAttributes(limit, offset, fail) ==
    /\ last' = IF fail
               THEN Handled("getAllAttributes", [limit |-> limit, offset |-> offset],
                            <<>>, <<StoreError>>)
               ELSE LET found == findAndCountAll(attributes, DOMAIN attributes,
                                                 limit, offset)
                    IN  Handled("getAllAttributes",
                                [limit |-> limit, offset |-> offset],
                                <<Response(200, found.rows)>>, <<>>)
    /\ UNCHANGED <<store, reviews, pending>>

getSingleAttribute(attribute_id, limit, offset, fail) ==
    LET params == [attribute_id |-> attribute_id, limit |-> limit, offset |-> offset]
        found == findAndCountAll(attributeValues, ValuesOfAttribute(attribute_id),
                                 limit, offset)
    IN  /\ last' = IF fail
                   THEN Handled("getSingleAttribute", params, <<>>, <<StoreError>>)
                   ELSE IF found.count = 0
                   THEN Handled("getSingleAttribute", params,
                            <<NotFound("ATR_01",
                                       <<Template("AttributeError", "ATR_01"),
                                         Text(" "), Param(attribute_id)>>,
                                       "attribute_id")>>, <<>>)
                   ELSE Handled("getSingleAttribute", params,
                                <<Response(200, found.rows)>>, <<>>)
        /\ UNCHANGED <<store, reviews, pending>>

\* Mutant of getAttributeValues: the include carries no where clause.
getAttributeValues_NoWhere(attribute_id, limit, offset, fail) ==
    LET params == [attribute_id |-> attribute_id, limit |-> limit, offset |-> offset]
        found == findAndCountAll(attributeValues, DOMAIN attributeValues,
                                 limit, offset)
    IN  /\ last' = IF fail
                   THEN Handled("getAttributeValues", params, <<>>, <<StoreError>>)
                   ELSE IF found.count = 0
                   THEN Handled("getAttributeValues", params,
                            <<NotFound("ATR_01",
                                       <<Template("AttributeError", "ATR_01"),
                                         Text(" "), Param(attribute_id)>>,
                                       "attribute_id")>>, <<>>)
                   ELSE Handled("getAttributeValues", params,
                                <<Response(200, found.rows)>>, <<>>)
        /\ UNCHANGED <<store, reviews, pending>>

getAttributeValues(attribute_id, limit, offset, fail) ==
    LET params == [attribute_id |-> attribute_id, limit |-> limit, offset |-> offset]
        found == findAndCountAll(attributeValues, ValuesOfAttribute(attribute_id),
                                 limit, offset)
    IN  /\ last' = IF fail
                   THEN Handled("getAttributeValues", params, <<>>, <<StoreError>>)
                   ELSE IF found.count = 0
                   THEN Handled("getAttributeValues", params,
                            <<NotFound("ATR_01",
                                       <<Template("AttributeError", "ATR_01"),
                                         Text(" "), Param(attribute_id)>>,
                                       "attribute_id")>>, <<>>)
                   ELSE Handled("getAttributeValues", params,
                                <<Response(200, found.rows)>>, <<>>)
        /\ UNCHANGED <<store, reviews, pending>>

getProductAttributes(product_id, limit, offset, fail) ==
    LET params == [product_id |-> product_id, limit |-> limit, offset |-> offset]
        found == findAndCountAll(attributeValues, ValuesOfProduct(product_id),
                                 limit, offset)
    IN  /\ last' = IF fail
                   THEN Handled("getProductAttributes", params, <<>>, <<StoreError>>)
                   ELSE IF found.count = 0
                   THEN Handled("getProductAttributes", params,
                            <<NotFound("ATR_02",
                                       <<Template("AttributeError", "ATR_02"),
                                         Text(" "), Param(product_id)>>,
                                       "product_id")>>, <<>>)
                   ELSE Handled("getProductAttributes", params,
                                <<Response(200, found.rows)>>, <<>>)
        /\ UNCHANGED <<store, reviews, pending>>

\* ------------------------------------------------------- ProductController
\* sqlQueryMap of getAllProducts: page, limit and totalPages are literals.
PageLiteral == 1
LimitLiteral == 1
TotalPagesLiteral == 20

getAllProducts(limit, offset, fail) ==
    LET params == [limit |-> limit, offset |-> offset]
        found == findAndCountAll(products, DOMAIN products,
                                 Some(LimitLiteral), offset)
    IN  /\ last' = IF fail
                   THEN Handled("getAllProducts", params, <<>>, <<StoreError>>)
                   ELSE Handled("getAllProducts", params,
                            <<Response(200,
                                [paginationMeta |->
                                    [currentPage |-> PageLiteral,
                                     currentPageSize |-> LimitLiteral,
                                     totalPages |-> TotalPagesLiteral,
                                     totalRecords |-> found.count],
                                 rows |-> found.rows])>>, <<>>)
        /\ UNCHANGED <<store, reviews, pending>>

TextOn == <<"o","n">>
TextOff == <<"o","f","f">>

\* rows.filter(...) keeps the rows satisfying the predicate, in order;
\* keep[i] is the predicate's value on rows[i].
filter(rows, keep) ==
    LET kept[i \in 0..Len(rows)] ==
            IF i = 0 THEN <<>>
            ELSE kept[i - 1] \o (IF keep[i] THEN <<rows[i]>> ELSE <<>>)
    IN  kept[Len(rows)]

\* Mutant of searchProduct: the name-only match folds case like the
\* all-fields match.
searchProduct_FoldName(query_string, all_words, fail) ==
    LET params == [query_string |-> query_string, all_words |-> all_words]
        product == findAndCountAll(products, DOMAIN products, None, None)
        inAnyField(data) ==
            indexOf(toLowerCase(stringify(data)), toLowerCase(query_string[1])) # -1
        inName(data) ==
            indexOf(toLowerCase(data.name), toLowerCase(query_string[1])) # -1
    IN  /\ last' = IF all_words = None
                   THEN Handled("searchProduct", params,
                            <<NotFound("USR_10",
                                       <<Text("all_words "),
                                         Template("UsersError", "USR_10")>>,
                                       "all_words")>>, <<>>)
                   ELSE IF query_string = None
                   THEN Handled("searchProduct", params,
                            <<NotFound("USR_10",
                                       <<Text("query_string "),
                                         Template("UsersError", "USR_10")>>,
                                       "query_string")>>, <<>>)
                   ELSE IF fail
                   THEN Handled("searchProduct", params, <<>>, <<StoreError>>)
                   ELSE IF toLowerCase(all_words[1]) = TextOn
                   THEN Handled("searchProduct", params,
                            <<Response(200, filter(product.rows,
                                [i \in 1..Len(product.rows) |->
                                    inAnyField(product.rows[i])]))>>, <<>>)
                   ELSE IF toLowerCase(all_words[1]) = TextOff
                   THEN Handled("searchProduct", params,
                            <<Response(200, filter(product.rows,
                                [i \in 1..Len(product.rows) |->
                                    inName(product.rows[i])]))>>, <<>>)
                   ELSE Handled("searchProduct", params, <<>>, <<>>)
        /\ UNCHANGED <<store, reviews, pending>>

searchProduct(query_string, all_words, fail) ==
    LET params == [query_string |-> query_string, all_words |-> all_words]
        product == findAndCountAll(products, DOMAIN products, None, None)
        inAnyField(data) ==
            indexOf(toLowerCase(stringify(data)), toLowerCase(query_string[1])) # -1
        inName(data) == indexOf(data.name, query_string[1]) # -1
    IN  /\ last' = IF all_words = None
                   THEN Handled("searchProduct", params,
                            <<NotFound("USR_10",
                                       <<Text("all_words "),
                                         Template("UsersError", "USR_10")>>,
                                       "all_words")>>, <<>>)
                   ELSE IF query_string = None
                   THEN Handled("searchProduct", params,
                            <<NotFound("USR_10",
                                       <<Text("query_string "),
                                         Template("UsersError", "USR_10")>>,
                                       "query_string")>>, <<>>)
                   ELSE IF fail
                   THEN Handled("searchProduct", params, <<>>, <<StoreError>>)
                   ELSE IF toLowerCase(all_words[1]) = TextOn
                   THEN Handled("searchProduct", params,
                            <<Response(200, filter(product.rows,
                                [i \in 1..Len(product.rows) |->
                                    inAnyField(product.rows[i])]))>>, <<>>)
                   ELSE IF toLowerCase(all_words[1]) = TextOff
                   THEN Handled("searchProduct", params,
                            <<Response(200, filter(product.rows,
                                [i \in 1..Len(product.rows) |->
                                    inName(product.rows[i])]))>>, <<>>)
                   ELSE Handled("searchProduct", params, <<>>, <<>>)
        /\ UNCHANGED <<store, reviews, pending>>

\* sqlQueryMap of getProductsByCategory and getProductsByDepartment.
ListLimit == 20
ListOffset == 0

getProductsByCategory(category_id, fail) ==
    LET params == [category_id |-> category_id]
        found == findAndCountAll(products, ProductsOfCategory(category_id),
                                 Some(ListLimit), Some(ListOffset))
    IN  /\ last' = IF fail
                   THEN Handled("getProductsByCategory", params, <<>>, <<StoreError>>)
                   ELSE IF found.count = 0
                   THEN Handled("getProductsByCategory", params,
                            <<NotFound("PRD_02",
                                       <<Template("ProductError", "PRD_02"),
                                         Text(" "), Param(category_id)>>,
                                       "category_id")>>, <<>>)
                   ELSE Handled("getProductsByCategory", params,
                                <<Response(200, found.rows)>>, <<>>)
        /\ UNCHANGED <<store, reviews, pending>>

getProductsByDepartment(department_id, fail) ==
    LET params == [department_id |-> department_id]
        found == findAndCountAll(products, ProductsOfDepartment(department_id),
                                 Some(ListLimit), Some(ListOffset))
    IN  /\ last' = IF fail
                   THEN Handled("getProductsByDepartment", params, <<>>, <<StoreError>>)
                   ELSE IF found.count = 0
                   THEN Handled("getProductsByDepartment", params,
                            <<NotFound("PRD_03",
                                       <<Template("ProductError", "PRD_03"),
                                         Text(" "), Param(department_id)>>,
                                       "department_id")>>, <<>>)
                   ELSE Handled("getProductsByDepartment", params,
                                <<Response(200, found.rows)>>, <<>>)
        /\ UNCHANGED <<store, reviews, pending>>

getProduct(product_id, fail) ==
    LET params == [product_id |-> product_id]
        product == findByPk(products, product_id)
    IN  /\ last' = IF fail
                   THEN Handled("getProduct", params, <<>>, <<StoreError>>)
                   ELSE IF product # None
                   THEN Handled("getProduct", params,
                            <<Response(200,
                                [product_id |-> product[1].product_id,
                                 name |-> product[1].name,
                                 description |-> product[1].description])>>, <<>>)
                   ELSE Handled("getProduct", params,
                            <<NotFound("PRD_01",
                                       <<Template("ProductError", "PRD_01"),
                                         Text(" "), Param(product_id)>>,
                                       "product_id")>>, <<>>)
        /\ UNCHANGED <<store, reviews, pending>>

\* Review.findByPk: the review whose own review_id is the key.
ReviewByPk(id) ==
    IF id \in 1..Len(reviews) THEN Some(reviews[id]) ELSE None

\* product_id is None when the request carries no (or an empty) product_id.
getProductReviews(product_id, fail) ==
    LET params == [product_id |-> product_id]
    IN  /\ last' = IF product_id = None
                   THEN Handled("getProductReviews", params, <<>>, <<>>)
                   ELSE IF fail
                   THEN Handled("getProductReviews", params, <<>>, <<StoreError>>)
                   ELSE IF ReviewByPk(product_id[1]) # None
                   THEN Handled("getProductReviews", params,
                            <<Response(200, ReviewByPk(product_id[1])[1])>>, <<>>)
                   ELSE Handled("getProductReviews", params,
                            <<NotFound("REV_01",
                                       <<Template("ReviewError", "REV_01"),
                                         Text(" "), Param(product_id[1])>>,
                                       "product_id")>>, <<>>)
        /\ UNCHANGED <<store, reviews, pending>>

\* The timestamp the persistence layer gives the n-th inserted row.
Timestamp(n) == 1000 + n

\* Review.create: the persistence layer assigns the row's identity and its
\* created_on; the other columns are the values handed in.
create(metadata) ==
    [review_id   |-> Len(reviews) + 1,
     product_id  |-> metadata.product_id,
     review      |-> metadata.review,
     rating      |-> metadata.rating,
     customer_id |-> metadata.customer_id,
     created_on  |-> Timestamp(Len(reviews) + 1)]

InFlight == { s \in Slots : pending[s] # None }

\* customer_id of every posted review.
CustomerLiteral == 0

\* Mutant of postProductReviews: Review.create runs before the product check.
postProductReviews_CreateUnchecked(slot, body, fail) ==
    LET metadata == [product_id |-> body.product_id, review |-> body.review,
                     rating |-> body.rating, customer_id |-> CustomerLiteral]
        product == findByPk(products, metadata.product_id)
    IN  /\ pending[slot] = None
        /\ ~fail => Len(reviews) + Cardinality(InFlight) < MaxReviews
        /\ IF fail
           THEN /\ last' = Handled("postProductReviews", body, <<>>, <<StoreError>>)
                /\ UNCHANGED <<pending, reviews>>
           ELSE IF product # None
           THEN /\ pending' = [pending EXCEPT ![slot] =
                                  Some([body |-> body, metadata |-> metadata,
                                        product |-> product[1]])]
                /\ UNCHANGED <<last, reviews>>
           ELSE /\ reviews' = Append(reviews, create(metadata))
                /\ last' = Handled("postProductReviews", body,
                              <<NotFound("PRD_01",
                                         <<Template("ProductError", "PRD_01"),
                                           Text(" "), Param(metadata.product_id)>>,
                                         "product_id")>>, <<>>)
                /\ UNCHANGED pending
        /\ UNCHANGED store

\* postProductReviews up to the resolution of Product.findByPk: the request
\* ends here when the call rejects or finds no product.
postProductReviews(slot, body, fail) ==
    LET metadata == [product_id |-> body.product_id, review |-> body.review,
                     rating |-> body.rating, customer_id |-> CustomerLiteral]
        product == findByPk(products, metadata.product_id)
    IN  /\ pending[slot] = None
        /\ (~fail /\ product # None)
              => Len(reviews) + Cardinality(InFlight) < MaxReviews
        /\ IF fail
           THEN /\ last' = Handled("postProductReviews", body, <<>>, <<StoreError>>)
                /\ UNCHANGED pending
           ELSE IF product # None
           THEN /\ pending' = [pending EXCEPT ![slot] =
                                  Some([body |-> body, metadata |-> metadata,
                                        product |-> product[1]])]
                /\ UNCHANGED last
           ELSE /\ last' = Handled("postProductReviews", body,
                              <<NotFound("PRD_01",
                                         <<Template("ProductError", "PRD_01"),
                                           Text(" "), Param(metadata.product_id)>>,
                                         "product_id")>>, <<>>)
                /\ UNCHANGED pending
        /\ UNCHANGED <<store, reviews>>

\* Mutant of postProductReviewsCreate: the insert replaces the stored reviews.
postProductReviewsCreate_Replace(slot, fail) ==
    /\ pending[slot] # None
    /\ LET frame == pending[slot][1]
           review == create(frame.metadata)
       IN  IF fail
           THEN /\ last' = Handled("postProductReviews", frame.body,
                                   <<>>, <<StoreError>>)
                /\ UNCHANGED reviews
           ELSE /\ reviews' = <<review>>
                /\ last' = Handled("postProductReviews", frame.body,
                              <<Response(201,
                                  [name |-> frame.product.name,
                                   review |-> frame.metadata.review,
                                   rating |-> frame.metadata.rating,
                                   created_on |-> review.created_on])>>, <<>>)
    /\ pending' = [pending EXCEPT ![slot] = None]
    /\ UNCHANGED store

\* Mutant of postProductReviewsCreate: the receipt echoes the created_on of
\* the request body.
postProductReviewsCreate_EchoCreatedOn(slot, fail) ==
    /\ pending[slot] # None
    /\ LET frame == pending[slot][1]
           review == create(frame.metadata)
       IN  IF fail
           THEN /\ last' = Handled("postProductReviews", frame.body,
                                   <<>>, <<StoreError>>)
                /\ UNCHANGED reviews
           ELSE /\ reviews' = Append(reviews, review)
                /\ last' = Handled("postProductReviews", frame.body,
                              <<Response(201,
                                  [name |-> frame.product.name,
                                   review |-> frame.metadata.review,
                                   rating |-> frame.metadata.rating,
                                   created_on |-> frame.body.created_on])>>, <<>>)
    /\ pending' = [pending EXCEPT ![slot] = None]
    /\ UNCHANGED store

\* postProductReviews from Review.create on: the insert and the 201 receipt.
postProductReviewsCreate(slot, fail) ==
    /\ pending[slot] # None
    /\ LET frame == pending[slot][1]
           review == create(frame.metadata)
       IN  IF fail
           THEN /\ last' = Handled("postProductReviews", frame.body,
                                   <<>>, <<StoreError>>)
                /\ UNCHANGED reviews
           ELSE /\ reviews' = Append(reviews, review)
                /\ last' = Handled("postProductReviews", frame.body,
                              <<Response(201,
                                  [name |-> frame.product.name,
                                   review |-> frame.metadata.review,
                                   rating |-> frame.metadata.rating,
                                   created_on |-> review.created_on])>>, <<>>)
    /\ pending' = [pending EXCEPT ![slot] = None]
    /\ UNCHANGED store

getAllDepartments(fail) ==
    /\ last' = IF fail
               THEN Handled("getAllDepartments", <<>>, <<>>, <<StoreError>>)
               ELSE Handled("getAllDepartments", <<>>,
                            <<Response(200, findAll(departments))>>, <<>>)
    /\ UNCHANGED <<store, reviews, pending>>

\* Mutant of getDepartment: the row is dereferenced before the null check,
\* so an unknown id throws into the catch.
getDepartment_Dereference(department_id, fail) ==
    LET params == [department_id |-> department_id]
        department == findByPk(departments, department_id)
    IN  /\ last' = IF fail
                   THEN Handled("getDepartment", params, <<>>, <<StoreError>>)
                   ELSE IF department # None
                   THEN Handled("getDepartment", params,
                                <<Response(200, department[1])>>, <<>>)
                   ELSE Handled("getDepartment", params, <<>>, <<"TypeError">>)
        /\ UNCHANGED <<store, reviews, pending>>

getDepartment(department_id, fail) ==
    LET params == [department_id |-> department_id]
        department == findByPk(departments, department_id)
    IN  /\ last' = IF fail
                   THEN Handled("getDepartment", params, <<>>, <<StoreError>>)
                   ELSE IF department # None
                   THEN Handled("getDepartment", params,
                                <<Response(200, department[1])>>, <<>>)
                   ELSE Handled("getDepartment", params,
                            <<NotFound("DEP_02",
                                       <<Text(" "),
                                         Template("DepartmentError", "DEP_02"),
                                         Param(department_id)>>,
                                       "department_id")>>, <<>>)
        /\ UNCHANGED <<store, reviews, pending>>

getAllCategories(fail) ==
    /\ last' = IF fail
               THEN Handled("getAllCategories", <<>>, <<>>, <<StoreError>>)
               ELSE Handled("getAllCategories", <<>>,
                            <<Response(200, findAll(categories))>>, <<>>)
    /\ UNCHANGED <<store, reviews, pending>>

getSingleCategory(category_id, fail) ==
    LET params == [category_id |-> category_id]
        category == findByPk(categories, category_id)
    IN  /\ last' = IF fail
                   THEN Handled("getSingleCategory", params, <<>>, <<StoreError>>)
                   ELSE IF category # None
                   THEN Handled("getSingleCategory", params,
                                <<Response(200, category[1])>>, <<>>)
                   ELSE Handled("getSingleCategory", params,
                            <<NotFound("CAT_01",
                                       <<Template("CategoryError", "CAT_01")>>,
                                       "category_id")>>, <<>>)
        /\ UNCHANGED <<store, reviews, pending>>

getDepartmentCategories(department_id, limit, offset, fail) ==
    LET params == [department_id |-> department_id,
                   limit |-> limit, offset |-> offset]
        found == findAndCountAll(categories, CategoriesOfDepartment(department_id),
                                 limit, offset)
    IN  /\ last' = IF fail
                   THEN Handled("getDepartmentCategories", params, <<>>, <<StoreError>>)
                   ELSE IF found.count = 0
                   THEN Handled("getDepartmentCategories", params,
                            <<NotFound("DEP_02",
                                       <<Template("DepartmentError", "DEP_02"),
                                         Text(" "), Param(department_id)>>,
                                       "department_id")>>, <<>>)
                   ELSE Handled("getDepartmentCategories", params,
                                <<Response(200, found.rows)>>, <<>>)
        /\ UNCHANGED <<store, reviews, pending>>

getCategoryOfProduct(product_id, fail) ==
    LET params == [product_id |-> product_id]
        found == findAndCountAll(categories, CategoriesOfProduct(product_id),
                                 None, None)
    IN  /\ last' = IF fail
                   THEN Handled("getCategoryOfProduct", params, <<>>, <<StoreError>>)
                   ELSE IF found.count = 0
                   THEN Handled("getCategoryOfProduct", params,
                            <<NotFound("CAT_02",
                                       <<Template("CategoryError", "CAT_01"),
                                         Text(" "), Param(product_id)>>,
                                       "product_id")>>, <<>>)
                   ELSE Handled("getCategoryOfProduct", params,
                                <<Response(200, found.rows)>>, <<>>)
        /\ UNCHANGED <<store, reviews, pending>>

\* The persistence layer removes a product row (no handler does).
DeleteProduct(product_id) ==
    /\ product_id \in DOMAIN products
    /\ products' = [p \in DOMAIN products \ {product_id} |-> products[p]]
    /\ UNCHANGED <<categories, departments, attributes, attributeValues,
                   productCategory, productAttribute, reviews, pending, last>>

\* ------------------------------------------------------------------ inputs
Limits == {None, Some(1)}
Offsets == {None, Some(1)}

NameShoe == <<"S","h","o","e">>
NameShoes == <<"S","H","O","E","S">>
NameHat == <<"H","a","t">>
TextRed == <<"R","e","d">>
TextLikeAShoe == <<"L","i","k","e"," ","a"," ","s","h","o","e">>

\* The name and description a product row may carry.
Copies ==
    << [name |-> NameShoe, description |-> TextRed],
       [name |-> NameHat, description |-> TextLikeAShoe],
       [name |-> NameShoes, description |-> TextRed] >>
ProductCopy == { Copies[i] : i \in 1..Len(Copies) }

QueryStrings ==
    { None, Some(NameShoe), Some(<<"S","H","O","E">>), Some(<<"n","a">>) }
AllWords ==
    { None, Some(TextOn), Some(TextOff), Some(<<"O","N">>), Some(<<"y","e","s">>) }

\* Request bodies of postProductReviews; created_on is a field the caller
\* may send along.
Bodies ==
    { [product_id |-> p, review |-> r.review, rating |-> r.rating,
       created_on |-> 0] :
        p \in RequestIds,
        r \in { [review |-> "Great", rating |-> 5],
                [review |-> "Poor", rating |-> 1] } }

\* ------------------------------------------------------------ initial store
ProductTables ==
    UNION { { [p \in S |-> [product_id |-> p, name |-> copy[p].name,
                            description |-> copy[p].description]] :
                copy \in [S -> ProductCopy] } : S \in SUBSET Ids }

AttributeTables ==
    { [a \in S |-> [attribute_id |-> a]] : S \in SUBSET Ids }

\* Every attribute value belongs to an attribute of the store.
AttributeValueTables(attrs) ==
    UNION { { [v \in S |-> [attribute_value_id |-> v, attribute_id |-> owner[v]]] :
                owner \in [S -> DOMAIN attrs] } : S \in SUBSET Ids }

\* The fixed catalog: each table holds the ids
\* 1..MaxId, every category in department 1, every attribute value under
\* attribute 1, every product in category 1 with attribute value 1.
FixedCatalog ==
    /\ departments = [d \in Ids |-> [department_id |-> d]]
    /\ categories = [c \in Ids |-> [category_id |-> c, department_id |-> 1]]
    /\ productCategory = { <<p, 1>> : p \in DOMAIN products }

FixedAttributes ==
    /\ attributes = [a \in Ids |-> [attribute_id |-> a]]
    /\ attributeValues =
          [v \in Ids |-> [attribute_value_id |-> v, attribute_id |-> 1]]
    /\ productAttribute = { <<p, 1>> : p \in DOMAIN products }

Idle ==
    /\ reviews = <<>>
    /\ pending = [s \in Slots |-> None]
    /\ last = [handler |-> "none", params |-> <<>>,
               responses |-> <<>>, nexts |-> <<>>]

\* Product p with the copy its id selects.
StockProduct(p) ==
    [product_id |-> p, name |-> Copies[((p - 1) % Len(Copies)) + 1].name,
     description |-> Copies[((p - 1) % Len(Copies)) + 1].description]

\* Any part of the products 1..MaxId, over the fixed catalog.
Init ==
    /\ products \in { [p \in S |-> StockProduct(p)] : S \in SUBSET Ids }
    /\ FixedCatalog
    /\ FixedAttributes
    /\ Idle

\* Products with freely drawn names and descriptions.
InitSearch ==
    /\ products \in ProductTables
    /\ FixedCatalog
    /\ FixedAttributes
    /\ Idle

\* Attribute and attribute value tables drawn freely.
InitAttributes ==
    /\ products = [p \in Ids |-> StockProduct(p)]
    /\ FixedCatalog
    /\ attributes \in AttributeTables
    /\ attributeValues \in AttributeValueTables(attributes)
    /\ productAttribute = { <<p, v>> \in (DOMAIN products) \X (DOMAIN attributeValues) :
                              p = v }
    /\ Idle

\* -------------------------------------------------------------- next state
\* The outcome of a request stays in `last` until the client has taken it;
\* the next request is handled after that.  `last` records what a handler
\* did and no handler reads it, so this restricts no handler.
NoRequest == Handled("none", <<>>, <<>>, <<>>)
Quiet == last = NoRequest

Taken ==
    /\ last # NoRequest
    /\ last' = NoRequest
    /\ UNCHANGED <<store, reviews, pending>>

Next ==
    \/ \E l \in Limits, o \in Offsets, f \in BOOLEAN : Quiet /\ getAllAttributes(l, o, f)
    \/ \E a \in RequestIds, l \in Limits, o \in Offsets, f \in BOOLEAN :
          Quiet /\ getSingleAttribute(a, l, o, f)
    \/ \E a \in RequestIds, l \in Limits, o \in Offsets, f \in BOOLEAN :
          Quiet /\ getAttributeValues(a, l, o, f)
    \/ \E p \in RequestIds, l \in Limits, o \in Offsets, f \in BOOLEAN :
          Quiet /\ getProductAttributes(p, l, o, f)
    \/ \E l \in Limits, o \in Offsets, f \in BOOLEAN : Quiet /\ getAllProducts(l, o, f)
    \/ \E q \in QueryStrings, w \in AllWords, f \in BOOLEAN : Quiet /\ searchProduct(q, w, f)
    \/ \E c \in RequestIds, f \in BOOLEAN : Quiet /\ getProductsByCategory(c, f)
    \/ \E d \in RequestIds, f \in BOOLEAN : Quiet /\ getProductsByDepartment(d, f)
    \/ \E p \in RequestIds, f \in BOOLEAN : Quiet /\ getProduct(p, f)
    \/ \E p \in {None} \cup {Some(i) : i \in RequestIds}, f \in BOOLEAN :
          Quiet /\ getProductReviews(p, f)
    \/ \E s \in Slots, b \in Bodies, f \in BOOLEAN : Quiet /\ postProductReviews(s, b, f)
    \/ \E s \in Slots, f \in BOOLEAN : Quiet /\ postProductReviewsCreate(s, f)
    \/ \E f \in BOOLEAN : Quiet /\ getAllDepartments(f)
    \/ \E d \in RequestIds, f \in BOOLEAN : Quiet /\ getDepartment(d, f)
    \/ \E f \in BOOLEAN : Quiet /\ getAllCategories(f)
    \/ \E c \in RequestIds, f \in BOOLEAN : Quiet /\ getSingleCategory(c, f)
    \/ \E d \in RequestIds, l \in Limits, o \in Offsets, f \in BOOLEAN :
          Quiet /\ getDepartmentCategories(d, l, o, f)
    \/ \E p \in RequestIds, f \in BOOLEAN : Quiet /\ getCategoryOfProduct(p, f)
    \/ Taken

Spec == Init /\ [][Next]_vars

\* The product listing and search over freely drawn product copy.
NextSearch ==
    \/ \E l \in Limits, o \in Offsets, f \in BOOLEAN : Quiet /\ getAllProducts(l, o, f)
    \/ \E q \in QueryStrings, w \in AllWords, f \in BOOLEAN : Quiet /\ searchProduct(q, w, f)
    \/ \E p \in RequestIds, f \in BOOLEAN : Quiet /\ getProduct(p, f)
    \/ Taken

SpecSearch == InitSearch /\ [][NextSearch]_vars

\* The attribute handlers over freely drawn attribute tables.
NextAttributes ==
    \/ \E l \in Limits, o \in Offsets, f \in BOOLEAN : Quiet /\ getAllAttributes(l, o, f)
    \/ \E a \in RequestIds, l \in Limits, o \in Offsets, f \in BOOLEAN :
          Quiet /\ getSingleAttribute(a, l, o, f)
    \/ \E a \in RequestIds, l \in Limits, o \in Offsets, f \in BOOLEAN :
          Quiet /\ getAttributeValues(a, l, o, f)
    \/ \E p \in RequestIds, l \in Limits, o \in Offsets, f \in BOOLEAN :
          Quiet /\ getProductAttributes(p, l, o, f)
    \/ Taken

SpecAttributes == InitAttributes /\ [][NextAttributes]_vars

\* Review posts racing with the persistence layer's deletion of products.
NextRace ==
    \/ \E s \in Slots, b \in Bodies, f \in BOOLEAN : Quiet /\ postProductReviews(s, b, f)
    \/ \E s \in Slots, f \in BOOLEAN : Quiet /\ postProductReviewsCreate(s, f)
    \/ \E p \in RequestIds, f \in BOOLEAN : Quiet /\ getProduct(p, f)
    \/ \E p \in Ids : DeleteProduct(p)
    \/ Taken

SpecRace == Init /\ [][NextRace]_vars

\* ------------------------------------------------------------------ claims
\* The request ended in the store's own rejection, forwarded to next().
Rejected(h) == h.nexts = <<StoreError>>

\* The request ended in exactly one response, the 404 with that code and
\* field, and nothing was handed to next().
OnlyNotFound(h, code, field) ==
    /\ Len(h.responses) = 1
    /\ h.responses[1].status = 404
    /\ h.responses[1].body.error.status = 404
    /\ h.responses[1].body.error.code = code
    /\ h.responses[1].body.error.field = field
    /\ h.nexts = <<>>

\* This step ended a request of that handler.
Ends(handler) == last' # last /\ last'.handler = handler

\* C1: a postProductReviews request whose product_id names no product of the
\* store ends, unless the store call itself rejects, in the single response
\* 404 PRD_01 / product_id, and the step leaves the reviews and the requests
\* waiting on Review.create as they were: nothing is inserted and no insert is
\* started.
C1_UnknownProductNoWrite ==
    [][ (Ends("postProductReviews")
         /\ last'.params.product_id \notin DOMAIN products)
        => /\ reviews' = reviews
           /\ pending' = pending
           /\ (~Rejected(last') => OnlyNotFound(last', "PRD_01", "product_id")) ]_vars

\* C1 witness: a 404 for an unknown product was answered while the store
\* already held a review.
C1_Witness ==
    /\ last.handler = "postProductReviews"
    /\ last.params.product_id \notin DOMAIN products
    /\ OnlyNotFound(last, "PRD_01", "product_id")
    /\ Len(reviews) >= 1

\* C2: a postProductReviews request for a product of the store ends, unless a
\* store call rejects, in the single response 201 whose receipt carries the
\* stored product's name, the review and rating of the request body and the
\* created_on of the inserted row, which is the store's timestamp and not the
\* created_on the caller sent; the step appends exactly one review, for that
\* product, with the body's review and rating and customer_id 0, and leaves
\* the earlier reviews as they were.
C2_ReceiptFromStore ==
    [][ (Ends("postProductReviews")
         /\ last'.params.product_id \in DOMAIN products
         /\ ~Rejected(last'))
        => LET body == last'.params
               row == reviews'[Len(reviews')]
           IN  /\ Len(reviews') = Len(reviews) + 1
               /\ SubSeq(reviews', 1, Len(reviews)) = reviews
               /\ row.product_id = body.product_id
               /\ row.review = body.review
               /\ row.rating = body.rating
               /\ row.customer_id = 0
               /\ row.created_on = Timestamp(Len(reviews'))
               /\ last'.nexts = <<>>
               /\ last'.responses =
                     << [status |-> 201,
                         body |-> [name |-> products[body.product_id].name,
                                   review |-> body.review,
                                   rating |-> body.rating,
                                   created_on |-> row.created_on]] >> ]_vars

\* C2 witness: a 201 receipt for the second review of the store, whose
\* created_on differs from the one the caller sent.
C2_Witness ==
    /\ last.handler = "postProductReviews"
    /\ Len(last.responses) = 1
    /\ last.responses[1].status = 201
    /\ Len(reviews) = 2
    /\ last.responses[1].body.created_on # last.params.created_on
    /\ last.responses[1].body.created_on = reviews[2].created_on

Ceiling(a, b) == (a + b - 1) \div b

\* C3: in the envelope getAllProducts returns, totalPages is
\* ceil(totalRecords / currentPageSize) and totalRecords is the number of
\* products in the store.
C3_TotalPagesComputed ==
    (last.handler = "getAllProducts" /\ Len(last.responses) = 1)
    => LET meta == last.responses[1].body.paginationMeta
       IN  /\ meta.totalRecords = Cardinality(DOMAIN products)
           /\ meta.totalPages = Ceiling(meta.totalRecords, meta.currentPageSize)

\* C4: getAttributeValues, unless the store call rejects: when some attribute
\* value has the requested parent attribute id the single response is 200 and
\* its rows are the limit/offset window of exactly the values with that
\* parent, in key order, so every row has that parent; when none has, the
\* single response is 404 ATR_01 / attribute_id.
C4_ValuesOfRequestedAttribute ==
    (last.handler = "getAttributeValues" /\ ~Rejected(last))
    => LET id == last.params.attribute_id
           matching == { v \in DOMAIN attributeValues :
                           attributeValues[v].attribute_id = id }
           n == Cardinality(matching)
           off == IF last.params.offset = None THEN 0 ELSE last.params.offset[1]
           lim == IF last.params.limit = None THEN n ELSE last.params.limit[1]
           rest == IF n > off THEN n - off ELSE 0
           want == IF lim < rest THEN lim ELSE rest
           Nth(k) == CHOOSE v \in matching :
                        Cardinality({ u \in matching : u < v }) = k - 1
       IN  IF matching # {}
           THEN /\ Len(last.responses) = 1
                /\ last.nexts = <<>>
                /\ last.responses[1].status = 200
                /\ LET rows == last.responses[1].body
                   IN  /\ Len(rows) = want
                       /\ \A i \in 1..Len(rows) :
                             /\ rows[i].attribute_id = id
                             /\ rows[i] = attributeValues[Nth(off + i)]
           ELSE OnlyNotFound(last, "ATR_01", "attribute_id")

\* C4 witness: a 200 whose single row is the one value under the requested
\* attribute while the store holds a value under another attribute.
C4_Witness ==
    /\ last.handler = "getAttributeValues"
    /\ Len(last.responses) = 1
    /\ last.responses[1].status = 200
    /\ Len(last.responses[1].body) = 1
    /\ \E v \in DOMAIN attributeValues :
          attributeValues[v].attribute_id # last.params.attribute_id

\* Two characters that are equal or the two cases of one letter.
SameLetter(a, b) ==
    \/ a = b
    \/ \E i \in 1..Len(Upper) : {a, b} = {Upper[i], Lower[i]}

Contains(s, q) ==
    \E i \in 0..(Len(s) - Len(q)) : \A k \in 1..Len(q) : s[i + k] = q[k]

ContainsIgnoringCase(s, q) ==
    \E i \in 0..(Len(s) - Len(q)) : \A k \in 1..Len(q) : SameLetter(s[i + k], q[k])

\* C5: searchProduct with a query_string, unless the store call rejects,
\* answers 200 with, for all_words = on, exactly the products whose serialized
\* record contains query_string ignoring case, and for all_words = off,
\* exactly the products whose name contains query_string as it is written.
C5_SearchModes ==
    (/\ last.handler = "searchProduct"
     /\ last.params.all_words \in {Some(TextOn), Some(TextOff)}
     /\ last.params.query_string # None
     /\ ~Rejected(last))
    => LET q == last.params.query_string[1]
           matches ==
               IF last.params.all_words = Some(TextOn)
               THEN { p \in DOMAIN products :
                        ContainsIgnoringCase(stringify(products[p]), q) }
               ELSE { p \in DOMAIN products : Contains(products[p].name, q) }
       IN  /\ Len(last.responses) = 1
           /\ last.nexts = <<>>
           /\ last.responses[1].status = 200
           /\ LET rows == last.responses[1].body
              IN  /\ Len(rows) = Cardinality(matches)
                  /\ { rows[i].product_id : i \in 1..Len(rows) } = matches
                  /\ \A i \in 1..Len(rows) : rows[i] = products[rows[i].product_id]

\* C5 witness: an all_words = off search that returns a product and leaves
\* out another one whose record contains the query_string only outside the
\* name or only in another letter case.
C5_Witness ==
    /\ last.handler = "searchProduct"
    /\ last.params.all_words = Some(TextOff)
    /\ last.params.query_string # None
    /\ Len(last.responses) = 1
    /\ last.responses[1].status = 200
    /\ Len(last.responses[1].body) = 1
    /\ \E p \in DOMAIN products :
          /\ p # last.responses[1].body[1].product_id
          /\ ContainsIgnoringCase(stringify(products[p]),
                                  last.params.query_string[1])

\* C6: getDepartment for a department_id the store does not hold, unless the
\* store call itself rejects, responds exactly once, with status 404 and a
\* body holding the one error object with code DEP_02 and field
\* department_id, and hands nothing to next().
C6_UnknownDepartment ==
    (/\ last.handler = "getDepartment"
     /\ last.params.department_id \notin DOMAIN departments
     /\ ~Rejected(last))
    => /\ OnlyNotFound(last, "DEP_02", "department_id")
       /\ DOMAIN last.responses[1].body = {"error"}

\* C6 witness: the 404 DEP_02 for an unknown department.
C6_Witness ==
    /\ last.handler = "getDepartment"
    /\ last.params.department_id \notin DOMAIN departments
    /\ OnlyNotFound(last, "DEP_02", "department_id")

\* The table a list-by-parent handler's id refers to.
ParentKnown(h) ==
    CASE h.handler = "getProductAttributes" ->
            h.params.product_id \in DOMAIN products
      [] h.handler = "getProductsByCategory" ->
            h.params.category_id \in DOMAIN categories
      [] h.handler = "getProductsByDepartment" ->
            h.params.department_id \in DOMAIN departments
      [] h.handler = "getDepartmentCategories" ->
            h.params.department_id \in DOMAIN departments
      [] h.handler = "getCategoryOfProduct" ->
            h.params.product_id \in DOMAIN products

\* C7: a list-by-parent handler, unless the store call rejects, answers 404
\* exactly when the parent id names no row of its table; a parent that exists
\* gets 200 (with an empty array when it has no associated rows).
C7_NotFoundIffParentMissing ==
    (/\ last.handler \in {"getProductAttributes", "getProductsByCategory",
                          "getProductsByDepartment", "getDepartmentCategories",
                          "getCategoryOfProduct"}
     /\ ~Rejected(last))
    => /\ Len(last.responses) = 1
       /\ last.responses[1].status = IF ParentKnown(last) THEN 200 ELSE 404

\* The request value a 404 names in its field.
Offending(h) ==
    IF h.handler = "getProductReviews"
    THEN h.params.product_id[1]
    ELSE h.params[h.responses[1].body.error.field]

\* C8: the message of every not-found response holds the catalog template
\* stored under the code the response carries, and the offending identifier
\* of the request.  (The USR_10 responses of searchProduct report a missing
\* parameter, not an identifier, and are left out.)
C8_MessageFromOwnTemplate ==
    (/\ Len(last.responses) = 1
     /\ last.responses[1].status = 404
     /\ last.handler # "searchProduct")
    => LET err == last.responses[1].body.error
           msg == err.message
       IN  /\ \E i \in 1..Len(msg) : msg[i][1] = "template" /\ msg[i][3] = err.code
           /\ \E i \in 1..Len(msg) : msg[i][1] = "param" /\ msg[i][2] = Offending(last)

\* C9: no step changes the Product, Category, Department, Attribute or
\* AttributeValue rows or their associations; the reviews change only in the
\* step that ends a postProductReviews request with 201, which appends one
\* review and leaves the earlier ones as they were.
C9_OnlyReviewsGrow ==
    [][ /\ UNCHANGED <<products, categories, departments, attributes,
                       attributeValues, productCategory, productAttribute>>
        /\ IF /\ Ends("postProductReviews")
              /\ Len(last'.responses) = 1
              /\ last'.responses[1].status = 201
           THEN /\ Len(reviews') = Len(reviews) + 1
                /\ SubSeq(reviews', 1, Len(reviews)) = reviews
           ELSE reviews' = reviews ]_vars

\* C9 witness: a read served from a store that has taken two reviews.
C9_Witness ==
    /\ Len(reviews) = 2
    /\ last.handler = "getProductReviews"
    /\ Len(last.responses) = 1
    /\ last.responses[1].status = 200

\* C10: every review is inserted for a product the store holds at the moment
\* of the insert, and every 201 receipt is for such a product.
C10_CheckAndInsertAtomic ==
    [][ /\ Len(reviews') > Len(reviews)
           => reviews'[Len(reviews')].product_id \in DOMAIN products
        /\ (/\ Ends("postProductReviews")
            /\ Len(last'.responses) = 1
            /\ last'.responses[1].status = 201)
           => last'.params.product_id \in DOMAIN products ]_vars

\* C11: every handled request ends in exactly one outcome: one JSON response
\* and nothing handed to next(), or no response and the store's rejection
\* handed to next() once, unchanged.
C11_ExactlyOneOutcome ==
    last # NoRequest
    => \/ Len(last.responses) = 1 /\ last.nexts = <<>>
       \/ last.responses = <<>> /\ last.nexts = <<StoreError>>

\* C12: getProductReviews with a product_id, unless the store call rejects:
\* a 200 carries a review whose product_id is the requested one, and a 404
\* REV_01 is given only when the store holds no review of that product.
C12_ReviewOfRequestedProduct ==
    (/\ last.handler = "getProductReviews"
     /\ last.params.product_id # None
     /\ Len(last.responses) = 1)
    => LET id == last.params.product_id[1]
           response == last.responses[1]
       IN  /\ response.status = 200 => response.body.product_id = id
           /\ response.status = 404
                 => /\ response.body.error.code = "REV_01"
                    /\ \A i \in 1..Len(reviews) : reviews[i].product_id # id

====
